---- MODULE Spec2Model ----
(***************************************************************************)
(* Model of the historic usage cache of the Aussie Broadband API client    *)
(* (src/aussiebb.py): UsageHistoryDict.__getitem__, __setitem__ and        *)
(* _try_get_date, together with AussieBB.login and                         *)
(* AussieBB.authenticated_get, which the cache fetches through, and of the *)
(* lazily refreshed AussieBB.customer and NBNService.usage_overview.       *)
(*                                                                         *)
(* Specifications.  Spec: gets and sets on one cache, with logins.         *)
(* SpecDates: the month one exact date resolves to.  SpecLazy: customer    *)
(* and usage_overview under a clock.  SpecServices: the caches of two      *)
(* services.  SpecThreads: two threads inside _try_get_date.  SpecObjects: *)
(* the NBNService objects behind abb.services and their usage_history.     *)
(* SpecSession: AussieBB.__init__ and sequences of logins.                 *)
(*                                                                         *)
(* Strings.  A key string is modelled as the sequence of its components    *)
(* when split at "-"; a component is the sequence of its characters; a     *)
(* character is a decimal digit 0..9, 11 for the newline, or 10 for any    *)
(* other character.  "2024-07-05" is <<<<2,0,2,4>>, <<0,7>>, <<0,5>>>>.   *)
(* Not modelled: "\d" matching non-ASCII digits.                           *)
(***************************************************************************)
EXTENDS Integers, Sequences, FiniteSets, TLC

(***************************************************************************)
(* Bounds of the model.                                                    *)
(***************************************************************************)
\* Number of calls in one behaviour: __getitem__, __setitem__, and reads of
\* customer and usage_overview.
MaxCalls == 2

(***************************************************************************)
(* Characters, regular expressions, int() and str.format().                *)
(***************************************************************************)
\* \d{lo,hi} against a whole component.
IsDigits(s, lo, hi) ==
    /\ Len(s) >= lo
    /\ Len(s) <= hi
    /\ \A i \in 1..Len(s) : s[i] \in 0..9

\* "$" matches at the end of the string and also before one newline that
\* ends the string: the component without such a newline.
StripNewline(s) ==
    IF Len(s) > 0 /\ s[Len(s)] = 11 THEN SubSeq(s, 1, Len(s) - 1) ELSE s

\* The key as the groups of a match see it: its last component without the
\* newline "$" lets through.
Groups(key) ==
    [i \in 1..Len(key) |-> IF i = Len(key) THEN StripNewline(key[i]) ELSE key[i]]

\* re.match(r'^(\d{4})(?:-(\d{1,2}))?(?:-(\d{1,2}))?$', key)
GetItemMatch(key) ==
    /\ Len(key) \in 1..3
    /\ IsDigits(Groups(key)[1], 4, 4)
    /\ (Len(key) >= 2 => IsDigits(Groups(key)[2], 1, 2))
    /\ (Len(key) >= 3 => IsDigits(Groups(key)[3], 1, 2))

\* re.match(_key_regex, key) with _key_regex = r'^(\d{4})-(\d{2})-(\d{2})$'
KeyRegexMatch(key) ==
    /\ Len(key) = 3
    /\ IsDigits(Groups(key)[1], 4, 4)
    /\ IsDigits(Groups(key)[2], 2, 2)
    /\ IsDigits(Groups(key)[3], 2, 2)

\* int(s) of a string of decimal digits.
RECURSIVE ToInt(_)
ToInt(s) ==
    IF Len(s) = 0 THEN 0
    ELSE 10 * ToInt(SubSeq(s, 1, Len(s) - 1)) + s[Len(s)]

\* '{}'.format(n) of an int n >= 0: its decimal digits, no padding.
RECURSIVE Str(_)
Str(n) ==
    IF n < 10 THEN <<n>> ELSE Str(n \div 10) \o << n % 10 >>

\* '{:0>2}'.format(n): the decimal digits, padded on the left with "0" to width 2.
Pad2(n) ==
    IF Len(Str(n)) < 2 THEN <<0>> \o Str(n) ELSE Str(n)

\* _key_format.format(year, month, day) with _key_format = '{}-{:0>2}-{:0>2}'
KeyFormat(year, month, day) ==
    << Str(year), Pad2(month), Pad2(day) >>

(***************************************************************************)
(* calendar.monthrange, as the standard library computes it.               *)
(***************************************************************************)
IsLeap(year) ==
    year % 4 = 0 /\ (year % 100 # 0 \/ year % 400 = 0)

MDays(month) ==
    CASE month = 2 -> 28
      [] month \in {4, 6, 9, 11} -> 30
      [] OTHER -> 31

NDays(year, month) ==
    MDays(month) + (IF month = 2 /\ IsLeap(year) THEN 1 ELSE 0)

RECURSIVE DaysBeforeMonth(_, _)
DaysBeforeMonth(year, month) ==
    IF month <= 1 THEN 0
    ELSE DaysBeforeMonth(year, month - 1) + NDays(year, month - 1)

\* datetime.date(year, month, day).weekday(): Monday is 0.  calendar.weekday
\* maps a year outside 1..9999 to 2000 + year % 400 first.
Weekday(year, month, day) ==
    LET y == IF year \in 1..9999 THEN year ELSE 2000 + (year % 400)
        before == (y - 1) * 365 + (y - 1) \div 4 - (y - 1) \div 100 + (y - 1) \div 400
        ordinal == before + DaysBeforeMonth(y, month) + day
    IN  (ordinal + 6) % 7

\* calendar.monthrange(year, month) = (weekday of the 1st, number of days);
\* it raises IllegalMonthError unless 1 <= month <= 12.
MonthRangeOk(month) == month \in 1..12

MonthRange(year, month) ==
    << Weekday(year, month, 1), NDays(year, month) >>

(***************************************************************************)
(* State.                                                                  *)
(***************************************************************************)
VARIABLES
    authenticated,   \* AussieBB.authenticated
    cookie_dict,     \* AussieBB._cookie_dict: "None" or "cookies"
    refresh_token,   \* AussieBB._refresh_token: "None" or "token"
    token_expiry,    \* AussieBB._token_expiry: "None" or "expiry"
    service_id,      \* NBNService.service_id of the service owning the cache
    rollover_day,    \* NBNService.rollover_day of that service
    history,         \* UsageHistoryDict._history: key string -> UsageHistory
    calls,           \* number of __getitem__ / __setitem__ calls made so far
    pre,             \* _history as it was when the last call started
    last,            \* the last call: what was asked, what came back
    cache_refresh,   \* AussieBB.cache_refresh
    clock,           \* time.time() in seconds, and how often it has advanced
    customer,        \* AussieBB._customer and AussieBB._customer_updated
    overview,        \* NBNService._usage_overview and ._usage_overview_updated
    access,          \* the last read of customer or usage_overview
    other,           \* a second NBNService: service_id, rollover_day, _history
    via,             \* the service whose cache the last call went through
    heap,            \* every NBNService that Customer.create has built so far
    threads,         \* two threads inside _try_get_date: position and locals
    fetchlog,        \* the calls of authenticated_get the threads made, in order
    overlapped       \* both threads were inside _try_get_date at once

\* The state of the lazily refreshed properties.
account == << cache_refresh, clock, customer, overview, access >>

\* The second service, and the service objects of the customer.
fleet == << other, via, heap >>

\* The threads.
race == << threads, fetchlog, overlapped >>

vars == << authenticated, cookie_dict, refresh_token, token_expiry, service_id,
           rollover_day, history, calls, pre, last,
           cache_refresh, clock, customer, overview, access, other, via, heap,
           threads, fetchlog, overlapped >>

\* The empty dict {}.
EmptyDict == [k \in {} |-> 0]

\* d[key] = value on a dict.
DictPut(d, key, value) ==
    [k \in DOMAIN d \cup {key} |-> IF k = key THEN value ELSE d[k]]

\* UsageHistory(date, download, upload)
UsageHistory(date, download, upload) ==
    [date |-> date, download |-> download, upload |-> upload]

(***************************************************************************)
(* The provider, seen through requests.get.  A scenario says what the      *)
(* provider answers during one call of the cache: it has usage data for    *)
(* the days lo..hi (as year*10000 + month*100 + day), groups them into     *)
(* periods that start on the service's rollover day, may send one entry    *)
(* without its "download" field (entry number bad, 0 for none), may write  *)
(* the date of one entry without zero padding (entry number loose, 0 for   *)
(* none), and may make the failAt-th request of the call fail (0 for       *)
(* none), either with a connection error or with the HTTP status given.    *)
(***************************************************************************)
DateNum(year, month, day) == year * 10000 + month * 100 + day

\* The provider writes dates as YYYY-MM-DD (years 1000..9999 here).
ServerDate(year, month, day) ==
    << Str(year), Pad2(month), Pad2(day) >>

\* The days of the period that starts on day r of (year, month), in order.
PeriodDays(r, year, month) ==
    IF month \notin 1..12 THEN << >>
    ELSE LET ny == IF month = 12 THEN year + 1 ELSE year
             nm == IF month = 12 THEN 1 ELSE month + 1
             n1 == IF NDays(year, month) >= r THEN NDays(year, month) - r + 1 ELSE 0
             n2 == IF NDays(ny, nm) >= r - 1 THEN r - 1 ELSE NDays(ny, nm)
         IN  [i \in 1..n1 |-> << year, month, r + i - 1 >>]
             \o [i \in 1..n2 |-> << ny, nm, i >>]

\* A date the provider writes without zero padding, as in "2024-7-5".
ServerDateLoose(year, month, day) ==
    << Str(year), Str(month), Str(day) >>

\* One entry of the "data" array for the day dt.
ServerEntry(dt, complete, padded) ==
    LET date == IF padded THEN ServerDate(dt[1], dt[2], dt[3])
                ELSE ServerDateLoose(dt[1], dt[2], dt[3])
    IN  IF complete
        THEN [date |-> date, download |-> dt[3], upload |-> dt[2]]
        ELSE [date |-> date, upload |-> dt[2]]

\* The "data" array the provider sends for usage/{year}/{month}.
ServerData(sc, r, year, month) ==
    LET days == SelectSeq(PeriodDays(r, year, month),
                          LAMBDA dt : /\ DateNum(dt[1], dt[2], dt[3]) >= sc.lo
                                      /\ DateNum(dt[1], dt[2], dt[3]) <= sc.hi)
    IN  [i \in 1..Len(days) |-> ServerEntry(days[i], i # sc.bad, i # sc.loose)]

\* What requests.get does for the n-th request of a call.
ServerReply(sc, n, r, endpoint) ==
    IF sc.failAt = n /\ sc.neterr
    THEN [raised |-> TRUE, status |-> 0, data |-> << >>]
    ELSE IF sc.failAt = n
    THEN [raised |-> FALSE, status |-> sc.status, data |-> << >>]
    ELSE [raised |-> FALSE, status |-> 200,
          data |-> ServerData(sc, r, endpoint.year, endpoint.month)]

(***************************************************************************)
(* AussieBB.authenticated_get                                              *)
(***************************************************************************)
\* AuthenticatedGet that sends the request whether logged in or not.
AuthenticatedGetNoAuthCheck(auth, endpoint, reply) ==
    IF reply.raised
    THEN [endpoint |-> endpoint, sent |-> TRUE, error |-> "ConnectionError", data |-> << >>]
    ELSE IF reply.status >= 400
    THEN [endpoint |-> endpoint, sent |-> TRUE, error |-> "HttpError", data |-> << >>]
    ELSE [endpoint |-> endpoint, sent |-> TRUE, error |-> "none", data |-> reply.data]

\* The result is a fetch record: the endpoint, whether an HTTP request was
\* sent, the exception raised ("none" if it returned) and the data returned.
AuthenticatedGet(auth, endpoint, reply) ==
    IF ~auth
    THEN [endpoint |-> endpoint, sent |-> FALSE, error |-> "Unauthenticated", data |-> << >>]
    ELSE IF reply.raised
    THEN [endpoint |-> endpoint, sent |-> TRUE, error |-> "ConnectionError", data |-> << >>]
    ELSE IF reply.status >= 400
    THEN [endpoint |-> endpoint, sent |-> TRUE, error |-> "HttpError", data |-> << >>]
    ELSE [endpoint |-> endpoint, sent |-> TRUE, error |-> "none", data |-> reply.data]

(***************************************************************************)
(* UsageHistoryDict._try_get_date                                          *)
(***************************************************************************)
\* ResolveMonth without the wrap from January to December of the year before.
ResolveMonthNoWrap(year, month, day, r) ==
    IF day < r THEN << year, month - 1 >> ELSE << year, month >>

\* The (year, month) whose period holds the day: lines 504-509.
ResolveMonth(year, month, day, r) ==
    IF day < r
    THEN IF month > 1 THEN << year, month - 1 >> ELSE << year - 1, 12 >>
    ELSE << year, month >>

\* 'broadband/{}/usage/{}/{}'.format(str(service_id), year, month)
Endpoint(sid, year, month) ==
    [service |-> sid, year |-> year, month |-> month]

\* Ingest that builds the records and stores none of them.
IngestDropped(hist, data, i) ==
    [hist |-> hist, err |-> "none"]

\* Ingest that leaves the loop after the first entry.
IngestFirstOnly(hist, data, i) ==
    IF Len(data) = 0 THEN [hist |-> hist, err |-> "none"]
    ELSE [hist |-> DictPut(hist, data[1].date,
                           UsageHistory(data[1].date, data[1].download, data[1].upload)),
          err |-> "none"]

\* The loop "for entry in json['data']", from entry i on.  An entry that
\* lacks a field raises KeyError before anything is written for it, and ends
\* the loop: the entries i .. stop - 1 are written one after the other, a
\* later entry replacing an earlier one of the same date.
Ingest(hist, data, i) ==
    LET broken == { j \in i..Len(data) : ~({"date", "download", "upload"} \subseteq DOMAIN data[j]) }
        stop == IF broken = {} THEN Len(data) + 1
                ELSE CHOOSE j \in broken : \A m \in broken : j <= m
        written == i..(stop - 1)
        dates == { data[j].date : j \in written }
        err == IF broken = {} THEN "none"
               ELSE IF "date" \notin DOMAIN data[stop] THEN "KeyError:date"
               ELSE IF "download" \notin DOMAIN data[stop] THEN "KeyError:download"
               ELSE "KeyError:upload"
    IN  [hist |-> [k \in DOMAIN hist \cup dates |->
                      IF k \in dates
                      THEN LET same == { j \in written : data[j].date = k }
                               entry == data[CHOOSE j \in same : \A m \in same : m <= j]
                           IN  UsageHistory(k, entry.download, entry.upload)
                      ELSE hist[k]],
         err |-> err]

\* TryGetDate that catches the exception of authenticated_get and returns None.
TryGetDateSwallow(ctx, key, auth, sid, r, sc) ==
    IF key \in DOMAIN ctx.hist
    THEN [ctx |-> ctx, ret |-> << ctx.hist[key] >>]
    ELSE IF ~KeyRegexMatch(key)
    THEN [ctx |-> [ctx EXCEPT !.err = "AttributeError"], ret |-> << >>]
    ELSE LET ym == ResolveMonth(ToInt(key[1]), ToInt(key[2]), ToInt(key[3]), r)
             endpoint == Endpoint(sid, ym[1], ym[2])
             n == Len(ctx.fetches) + 1
             req == AuthenticatedGet(auth, endpoint, ServerReply(sc, n, r, endpoint))
             fetched == Append(ctx.fetches, req)
             ing == Ingest(ctx.hist, req.data, 1)
         IN  IF req.error # "none"
             THEN [ctx |-> [ctx EXCEPT !.fetches = fetched], ret |-> << >>]
             ELSE [ctx |-> [hist |-> ing.hist, fetches |-> fetched, err |-> ing.err],
                   ret |-> IF ing.err = "none" /\ key \in DOMAIN ing.hist
                           THEN << ing.hist[key] >> ELSE << >>]

\* TryGetDate that remembers a day the response had no entry for, as a
\* record without usage.
TryGetDateAbsentCached(ctx, key, auth, sid, r, sc) ==
    IF key \in DOMAIN ctx.hist
    THEN [ctx |-> ctx, ret |-> IF ctx.hist[key].download = -1 THEN << >>
                               ELSE << ctx.hist[key] >>]
    ELSE IF ~KeyRegexMatch(key)
    THEN [ctx |-> [ctx EXCEPT !.err = "AttributeError"], ret |-> << >>]
    ELSE LET ym == ResolveMonth(ToInt(key[1]), ToInt(key[2]), ToInt(key[3]), r)
             endpoint == Endpoint(sid, ym[1], ym[2])
             n == Len(ctx.fetches) + 1
             req == AuthenticatedGet(auth, endpoint, ServerReply(sc, n, r, endpoint))
             fetched == Append(ctx.fetches, req)
         IN  IF req.error # "none"
             THEN [ctx |-> [ctx EXCEPT !.fetches = fetched, !.err = req.error],
                   ret |-> << >>]
             ELSE LET ing == Ingest(ctx.hist, req.data, 1)
                  IN  IF ing.err # "none"
                      THEN [ctx |-> [hist |-> ing.hist, fetches |-> fetched, err |-> ing.err],
                            ret |-> << >>]
                      ELSE IF key \in DOMAIN ing.hist
                      THEN [ctx |-> [hist |-> ing.hist, fetches |-> fetched, err |-> "none"],
                            ret |-> << ing.hist[key] >>]
                      ELSE [ctx |-> [hist |-> DictPut(ing.hist, key, UsageHistory(key, -1, -1)),
                                     fetches |-> fetched, err |-> "none"],
                            ret |-> << >>]

\* A call's context: the cache, the fetches made so far in this call, and
\* the exception raised ("none" while running).  TryGetDate returns the new
\* context and ret: << >> for None, << usage >> for a UsageHistory.
TryGetDate(ctx, key, auth, sid, r, sc) ==
    IF key \in DOMAIN ctx.hist
    THEN [ctx |-> ctx, ret |-> << ctx.hist[key] >>]
    ELSE IF ~KeyRegexMatch(key)
    THEN \* match is None: match.group(1) raises AttributeError
         [ctx |-> [ctx EXCEPT !.err = "AttributeError"], ret |-> << >>]
    ELSE LET ym == ResolveMonth(ToInt(key[1]), ToInt(key[2]), ToInt(key[3]), r)
             endpoint == Endpoint(sid, ym[1], ym[2])
             n == Len(ctx.fetches) + 1
             req == AuthenticatedGet(auth, endpoint, ServerReply(sc, n, r, endpoint))
             fetched == Append(ctx.fetches, req)
         IN  IF req.error # "none"
             THEN [ctx |-> [ctx EXCEPT !.fetches = fetched, !.err = req.error],
                   ret |-> << >>]
             ELSE LET ing == Ingest(ctx.hist, req.data, 1)
                  IN  IF ing.err # "none"
                      THEN [ctx |-> [hist |-> ing.hist, fetches |-> fetched, err |-> ing.err],
                            ret |-> << >>]
                      ELSE [ctx |-> [hist |-> ing.hist, fetches |-> fetched, err |-> "none"],
                            ret |-> IF key \in DOMAIN ing.hist
                                    THEN << ing.hist[key] >> ELSE << >>]

(***************************************************************************)
(* UsageHistoryDict.__getitem__                                            *)
(***************************************************************************)
\* range(1, 12): the months the year loop visits.
YearMonths == [i \in 1..11 |-> i]

\* "for day in calendar.monthrange(year, month)": the loop runs over the
\* two members of the tuple monthrange returns.
LoopDays(year, month) == MonthRange(year, month)

\* The keys a month loop looks up, in order.
MonthLookups(year, month) ==
    [i \in 1..Len(LoopDays(year, month)) |->
        KeyFormat(year, month, LoopDays(year, month)[i])]

\* The keys the year loop looks up, in order.
RECURSIVE YearLookupsFrom(_, _)
YearLookupsFrom(year, i) ==
    IF i > Len(YearMonths) THEN << >>
    ELSE MonthLookups(year, YearMonths[i]) \o YearLookupsFrom(year, i + 1)

YearLookups(year) == YearLookupsFrom(year, 1)

\* The body shared by both loops: look the keys up in order, append what is
\* found; an exception ends the loop.
RECURSIVE LookupAll(_, _, _, _, _, _, _, _)
LookupAll(ctx, keys, i, output, auth, sid, r, sc) ==
    IF i > Len(keys) THEN [ctx |-> ctx, result |-> output]
    ELSE LET t == TryGetDate(ctx, keys[i], auth, sid, r, sc)
         IN  IF t.ctx.err # "none" THEN [ctx |-> t.ctx, result |-> << >>]
             ELSE LookupAll(t.ctx, keys, i + 1, output \o t.ret, auth, sid, r, sc)

\* "not month" / "not day": the group is missing (None) or its int is 0.
NotGroup(key, g) == Len(key) < g \/ ToInt(key[g]) = 0

\* __getitem__(key) on the cache hist: the new cache, the fetches made, the
\* exception raised ("none" if it returned) and the list returned.
GetItem(hist, key, auth, sid, r, sc) ==
    LET ctx0 == [hist |-> hist, fetches |-> << >>, err |-> "none"]
        g == Groups(key)
    IN  IF ~GetItemMatch(key)
        THEN [ctx |-> [ctx0 EXCEPT !.err = "KeyError"], result |-> << >>]
        ELSE IF NotGroup(g, 2)
        THEN LookupAll(ctx0, YearLookups(ToInt(g[1])), 1, << >>, auth, sid, r, sc)
        ELSE IF NotGroup(g, 3)
        THEN IF ~MonthRangeOk(ToInt(g[2]))
             THEN [ctx |-> [ctx0 EXCEPT !.err = "IllegalMonthError"], result |-> << >>]
             ELSE LookupAll(ctx0, MonthLookups(ToInt(g[1]), ToInt(g[2])), 1, << >>,
                            auth, sid, r, sc)
        ELSE LET t == TryGetDate(ctx0, KeyFormat(ToInt(g[1]), ToInt(g[2]), ToInt(g[3])),
                                 auth, sid, r, sc)
             IN  [ctx |-> t.ctx, result |-> t.ret]

(***************************************************************************)
(* UsageHistoryDict.__setitem__                                            *)
(***************************************************************************)
SetItem(hist, key, value) ==
    IF KeyRegexMatch(key)
    THEN [hist |-> DictPut(hist, key, value), err |-> "none"]
    ELSE [hist |-> hist, err |-> "KeyError"]

(***************************************************************************)
(* AussieBB.customer and NBNService.usage_overview.  A cached property is  *)
(* the pair of its value (<< >> for None, << object >> otherwise) and the  *)
(* time.time() of its last assignment.                                     *)
(***************************************************************************)
\* cache_refresh: int = 120000
DefaultCacheRefresh == 120000

\* A property nothing was assigned to: None and 0.
EmptyCache == [value |-> << >>, updated |-> 0]

\* AussieBBInit that takes the milliseconds of its docstring and keeps seconds.
AussieBBInitSeconds(args) ==
    [cookie_dict |-> "None", refresh_token |-> "None", token_expiry |-> "None",
     authenticated |-> FALSE,
     cache_refresh |-> IF args = << >> THEN DefaultCacheRefresh \div 1000
                       ELSE args[1] \div 1000,
     customer |-> EmptyCache]

\* AussieBB.__init__(*args): the fields of the new instance.  args is << >>
\* for AussieBB() and << n >> for AussieBB(n) or AussieBB(cache_refresh=n).
AussieBBInit(args) ==
    [cookie_dict |-> "None", refresh_token |-> "None", token_expiry |-> "None",
     authenticated |-> FALSE,
     cache_refresh |-> IF args = << >> THEN DefaultCacheRefresh ELSE args[1],
     customer |-> EmptyCache]

\* Stale that also refreshes when exactly cache_refresh has passed.
StaleAtEqual(cache, now, refresh) ==
    cache.value = << >> \/ now - cache.updated >= refresh

\* "self._customer is None or time.time() - self._customer_updated >
\* self.cache_refresh", and the same test of usage_overview.
Stale(cache, now, refresh) ==
    cache.value = << >> \/ now - cache.updated > refresh

\* CacheStore that assigns the value and leaves the time as it was.
CacheStoreKeepStamp(cache, value, now) ==
    [value |-> << value >>, updated |-> cache.updated]

\* The setters: the value, then time.time().
CacheStore(cache, value, now) ==
    [value |-> << value >>, updated |-> now]

\* NBNService(abb_api, service_id, ..., rollover_day, ...)
NBNService(sid, r) ==
    [service_id |-> sid, rollover_day |-> r,
     usage_overview |-> EmptyCache, usage_history |-> EmptyCache]

\* UsageHistoryDict(abb_api, service): a new instance with an empty _history.
\* serial tells the instances apart.
UsageHistoryDict(serial) == [serial |-> serial, history |-> EmptyDict]

\* UsageHistoryGetter whose new instance takes over the days of the old one.
UsageHistoryGetterKeepDays(svc, now, refresh, serial) ==
    IF Stale(svc.usage_history, now, refresh)
    THEN [svc EXCEPT !.usage_history =
             CacheStore(@, IF @.value = << >> THEN UsageHistoryDict(serial)
                           ELSE [serial |-> serial, history |-> @.value[1].history],
                        now)]
    ELSE svc

\* The getter of NBNService.usage_history, and the setter it calls: the
\* service as it is once the property has been read.  An instance of
\* UsageHistoryDict is never false (the class has no __bool__ or __len__),
\* so "not self._usage_history" holds only of None.
UsageHistoryGetter(svc, now, refresh, serial) ==
    IF Stale(svc.usage_history, now, refresh)
    THEN [svc EXCEPT !.usage_history = CacheStore(@, UsageHistoryDict(serial), now)]
    ELSE svc

\* Customer.create: the request for "customer" and the Customer built from
\* its body, with a new NBNService for each entry of services.NBN.  A body
\* that lacks a field raises 'Failed to populate ...'.
CustomerCreate(auth, reply) ==
    LET req == AuthenticatedGet(auth, "customer", reply)
    IN  IF req.error # "none" THEN [req |-> req, err |-> req.error, obj |-> << >>]
        ELSE IF ~req.data.complete
        THEN [req |-> req, err |-> "FailedToPopulate", obj |-> << >>]
        ELSE [req |-> req, err |-> "none",
              obj |-> << [phone |-> req.data.phone,
                          services |-> [i \in 1..Len(req.data.services) |->
                              NBNService(req.data.services[i].service_id,
                                         req.data.services[i].usageAnniversary)]] >>]

\* Place that finds the services of the Customer before it again.
PlaceReused(hp, cust) ==
    IF Len(hp) < Len(cust.services)
    THEN [heap |-> hp \o cust.services,
          customer |-> [cust EXCEPT !.services =
                           [i \in 1..Len(cust.services) |-> Len(hp) + i]]]
    ELSE [heap |-> hp,
          customer |-> [cust EXCEPT !.services =
                           [i \in 1..Len(cust.services) |->
                               Len(hp) - Len(cust.services) + i]]]

\* The NBNService instances that Customer.create appended to its new list
\* "services" are new objects: hp is every service built before, and the
\* list of the Customer refers to the new ones by their place.
Place(hp, cust) ==
    [heap |-> hp \o cust.services,
     customer |-> [cust EXCEPT !.services =
                      [i \in 1..Len(cust.services) |-> Len(hp) + i]]]

\* OverviewServiceUsage.create for the service sid.
OverviewCreate(auth, sid, reply) ==
    LET req == AuthenticatedGet(auth, [service |-> sid, path |-> "usage"], reply)
    IN  IF req.error # "none" THEN [req |-> req, err |-> req.error, obj |-> << >>]
        ELSE IF ~req.data.complete
        THEN [req |-> req, err |-> "FailedToPopulate", obj |-> << >>]
        ELSE [req |-> req, err |-> "none",
              obj |-> << [total |-> req.data.usedMb] >>]

\* Reading a cached property whose value create would build (create is only
\* evaluated when the property is stale): the new cache, the fetches made,
\* the exception raised and the value returned.
CachedRead(cache, now, refresh, create) ==
    IF Stale(cache, now, refresh)
    THEN IF create.err # "none"
         THEN [cache |-> cache, fetches |-> << create.req >>, err |-> create.err,
               ret |-> << >>]
         ELSE [cache |-> CacheStore(cache, create.obj[1], now),
               fetches |-> << create.req >>, err |-> "none", ret |-> create.obj]
    ELSE [cache |-> cache, fetches |-> << >>, err |-> "none", ret |-> cache.value]

(***************************************************************************)
(* Inputs.                                                                 *)
(***************************************************************************)
K_2024_07_05 == << <<2,0,2,4>>, <<0,7>>, <<0,5>> >>   \* "2024-07-05"
K_2024_7_5 == << <<2,0,2,4>>, <<7>>, <<5>> >>         \* "2024-7-5"
K_2024_06_28 == << <<2,0,2,4>>, <<0,6>>, <<2,8>> >>   \* "2024-06-28"
K_2024_01_03 == << <<2,0,2,4>>, <<0,1>>, <<0,3>> >>   \* "2024-01-03"
K_0999_01_01 == << <<0,9,9,9>>, <<0,1>>, <<0,1>> >>   \* "0999-01-01"
K_2024 == << <<2,0,2,4>> >>                           \* "2024"
K_2024_07 == << <<2,0,2,4>>, <<0,7>> >>               \* "2024-07"
K_2024_06 == << <<2,0,2,4>>, <<0,6>> >>               \* "2024-06"
K_abcd == << <<10,10,10,10>> >>                       \* "abcd"
K_2024_13 == << <<2,0,2,4>>, <<1,3>> >>               \* "2024-13"
K_2024_02_30_01 == << <<2,0,2,4>>, <<0,2>>, <<3,0>>, <<0,1>> >>  \* "2024-02-30-01"
K_2024_02_30 == << <<2,0,2,4>>, <<0,2>>, <<3,0>> >>   \* "2024-02-30"
K_2024_13_05 == << <<2,0,2,4>>, <<1,3>>, <<0,5>> >>   \* "2024-13-05"
K_2024_07_00 == << <<2,0,2,4>>, <<0,7>>, <<0,0>> >>   \* "2024-07-00"
K_2024_13_28 == << <<2,0,2,4>>, <<1,3>>, <<2,8>> >>   \* "2024-13-28"
K_2024_07_05_nl == << <<2,0,2,4>>, <<0,7>>, <<0,5,11>> >>   \* "2024-07-05\n"

\* A get of a whole year makes up to 22 lookups: it is tried with the
\* scenarios of YearScenarios only.
YearKeys == { K_2024 }

GetKeys ==
    { K_2024_07_05, K_2024_7_5, K_2024_06_28, K_2024_01_03, K_0999_01_01,
      K_2024_07, K_2024_06,
      K_abcd, K_2024_13, K_2024_02_30_01, K_2024_02_30, K_2024_13_05, K_2024_07_00,
      K_2024_13_28 }

SetKeys ==
    { K_2024_07_05, K_2024_7_5, K_0999_01_01, K_2024, K_2024_07, K_abcd,
      K_2024_02_30_01, K_2024_07_05_nl }

\* The values __setitem__ is given: UsageHistory objects of the caller.
SetValues == { UsageHistory(<< <<10>> >>, 100, 200) }

Scenarios ==
    { [lo |-> 20240628, hi |-> 20240727, bad |-> 0, loose |-> 0, failAt |-> 0, neterr |-> FALSE, status |-> 200],
      [lo |-> 20240628, hi |-> 20240704, bad |-> 0, loose |-> 0, failAt |-> 0, neterr |-> FALSE, status |-> 200],
      [lo |-> 20240628, hi |-> 20240727, bad |-> 3, loose |-> 0, failAt |-> 0, neterr |-> FALSE, status |-> 200],
      [lo |-> 20240628, hi |-> 20240727, bad |-> 0, loose |-> 0, failAt |-> 1, neterr |-> FALSE, status |-> 400],
      [lo |-> 20240628, hi |-> 20240727, bad |-> 0, loose |-> 0, failAt |-> 2, neterr |-> TRUE, status |-> 0],
      [lo |-> 20240628, hi |-> 20240727, bad |-> 0, loose |-> 8, failAt |-> 0, neterr |-> FALSE, status |-> 200] }

YearScenarios ==
    { [lo |-> 20240628, hi |-> 20240727, bad |-> 0, loose |-> 0, failAt |-> 0, neterr |-> FALSE, status |-> 200],
      [lo |-> 20240628, hi |-> 20240727, bad |-> 0, loose |-> 0, failAt |-> 2, neterr |-> TRUE, status |-> 0] }

\* The scenarios a get of the key is tried with.
ScenariosFor(key) == IF key \in YearKeys THEN YearScenarios ELSE Scenarios

RolloverDays == {10, 28}

(***************************************************************************)
(* The state machine.                                                      *)
(***************************************************************************)
NoCall ==
    [op |-> "none", key |-> << >>, value |-> << >>, result |-> << >>,
     err |-> "none", fetches |-> << >>]

NoAccess ==
    [what |-> "none", had |-> EmptyCache, at |-> 0, status |-> 0,
     fetches |-> << >>, err |-> "none", ret |-> << >>]

\* A thread about to call _try_get_date('2024-07-05').
IdleThread ==
    [pc |-> "start", key |-> K_2024_07_05, req |-> << >>, i |-> 0,
     ret |-> << >>, err |-> "none"]

\* AussieBB.__init__(refresh) and NBNService.__init__: nothing cached yet.
\* The second service has its own UsageHistoryDict, empty as well, and no
\* thread has entered _try_get_date.
InitAccount(refresh) ==
    /\ cache_refresh = refresh
    /\ clock = [now |-> 1700000000, ticks |-> 0]
    /\ customer = EmptyCache
    /\ overview = EmptyCache
    /\ access = NoAccess
    /\ other = [service_id |-> 8, rollover_day |-> 10, history |-> EmptyDict]
    /\ via = "mine"
    /\ heap = << >>
    /\ threads = [t \in {1, 2} |-> IdleThread]
    /\ fetchlog = << >>
    /\ overlapped = FALSE

\* After AussieBB.__init__, Customer.create building the service, and
\* UsageHistoryDict.__init__.
Init ==
    /\ authenticated = FALSE
    /\ cookie_dict = "None"
    /\ refresh_token = "None"
    /\ token_expiry = "None"
    /\ service_id = 7
    /\ rollover_day \in RolloverDays
    /\ history = EmptyDict
    /\ calls = 0
    /\ pre = EmptyDict
    /\ last = NoCall
    /\ InitAccount(DefaultCacheRefresh)

\* Login that raises the flag as soon as the cookies are in.
LoginFlagWithCookies(status, cookies, tokens) ==
    /\ IF status >= 400
       THEN UNCHANGED << cookie_dict, refresh_token, token_expiry, authenticated >>
       ELSE IF ~cookies
       THEN UNCHANGED << cookie_dict, refresh_token, token_expiry, authenticated >>
       ELSE IF ~tokens
       THEN /\ cookie_dict' = "cookies"
            /\ authenticated' = TRUE
            /\ UNCHANGED << refresh_token, token_expiry >>
       ELSE /\ cookie_dict' = "cookies"
            /\ refresh_token' = "token"
            /\ token_expiry' = "expiry"
            /\ authenticated' = TRUE
    /\ UNCHANGED << service_id, rollover_day, history, calls, pre, last,
                    account, fleet, race >>

\* AussieBB.login: the response has the status given, cookies or none, and
\* a JSON body with or without refreshToken and expiresIn.
Login(status, cookies, tokens) ==
    /\ IF status >= 400
       THEN UNCHANGED << cookie_dict, refresh_token, token_expiry, authenticated >>
       ELSE IF ~cookies
       THEN UNCHANGED << cookie_dict, refresh_token, token_expiry, authenticated >>
       ELSE IF ~tokens
       THEN /\ cookie_dict' = "cookies"
            /\ UNCHANGED << refresh_token, token_expiry, authenticated >>
       ELSE /\ cookie_dict' = "cookies"
            /\ refresh_token' = "token"
            /\ token_expiry' = "expiry"
            /\ authenticated' = TRUE
    /\ UNCHANGED << service_id, rollover_day, history, calls, pre, last,
                    account, fleet, race >>

\* usage_history[key]
Get(key, sc) ==
    /\ calls < MaxCalls
    /\ LET g == GetItem(history, key, authenticated, service_id, rollover_day, sc)
       IN  /\ history' = g.ctx.hist
           /\ last' = [op |-> "get", key |-> key, value |-> << >>, result |-> g.result,
                       err |-> g.ctx.err, fetches |-> g.ctx.fetches]
    /\ pre' = history
    /\ calls' = calls + 1
    /\ UNCHANGED << authenticated, cookie_dict, refresh_token, token_expiry,
                    service_id, rollover_day, account, fleet, race >>

\* usage_history[key] = value
Set(key, value) ==
    /\ calls < MaxCalls
    /\ LET s == SetItem(history, key, value)
       IN  /\ history' = s.hist
           /\ last' = [op |-> "set", key |-> key, value |-> << value >>, result |-> << >>,
                       err |-> s.err, fetches |-> << >>]
    /\ pre' = history
    /\ calls' = calls + 1
    /\ UNCHANGED << authenticated, cookie_dict, refresh_token, token_expiry,
                    service_id, rollover_day, account, fleet, race >>

Next ==
    \/ \E status \in {200, 401}, cookies \in BOOLEAN, tokens \in BOOLEAN :
          Login(status, cookies, tokens)
    \/ \E key \in GetKeys \cup YearKeys :
          \E sc \in ScenariosFor(key) : Get(key, sc)
    \/ \E key \in SetKeys, value \in SetValues : Set(key, value)

Spec == Init /\ [][Next]_vars

(***************************************************************************)
(* A second specification, for the resolution of one date: the service may *)
(* have any rollover day, a login has succeeded, the cache is empty, and   *)
(* one exact date of DateYears is looked up.                               *)
(***************************************************************************)
DateYears == {2024, 2025}

PlainScenario ==
    [lo |-> 20240628, hi |-> 20240727, bad |-> 0, loose |-> 0, failAt |-> 0, neterr |-> FALSE, status |-> 200]

InitDates ==
    /\ authenticated = TRUE
    /\ cookie_dict = "cookies"
    /\ refresh_token = "token"
    /\ token_expiry = "expiry"
    /\ service_id = 7
    /\ rollover_day \in 1..31
    /\ history = EmptyDict
    /\ calls = 0
    /\ pre = EmptyDict
    /\ last = NoCall
    /\ InitAccount(DefaultCacheRefresh)

GetDate(year, month, day) ==
    /\ calls = 0
    /\ day <= NDays(year, month)
    /\ Get(KeyFormat(year, month, day), PlainScenario)

NextDates ==
    \E year \in DateYears, month \in 1..12, day \in 1..31 : GetDate(year, month, day)

SpecDates == InitDates /\ [][NextDates]_vars

(***************************************************************************)
(* A third specification, for the lazily refreshed properties: the client  *)
(* is built with one of RefreshValues, the clock advances, and customer,   *)
(* the usage_overview of the service and one date of its usage history are *)
(* read, before and after a login.                                         *)
(***************************************************************************)
\* Number of times the clock advances in one behaviour.
MaxTicks == 2

\* The cache_refresh the client is built with.
RefreshValues == {2, DefaultCacheRefresh}

\* By how many seconds the clock advances between two operations.
TickSeconds == {1, 121, 120000}

\* What the provider answers to "customer" and to "broadband/{id}/usage":
\* a connection error, an HTTP status, and a JSON body that is complete or
\* lacks a field.
AccountReplies ==
    { [raised |-> FALSE, status |-> 200,
       data |-> [complete |-> TRUE, phone |-> 1, usedMb |-> 1,
                 services |-> << [service_id |-> 7, usageAnniversary |-> 28] >>]],
      [raised |-> FALSE, status |-> 200,
       data |-> [complete |-> TRUE, phone |-> 2, usedMb |-> 2,
                 services |-> << [service_id |-> 7, usageAnniversary |-> 28] >>]],
      [raised |-> FALSE, status |-> 200,
       data |-> [complete |-> FALSE, phone |-> 1, usedMb |-> 1, services |-> << >>]],
      [raised |-> FALSE, status |-> 400, data |-> << >>],
      [raised |-> TRUE, status |-> 0, data |-> << >>] }

Http400Scenario ==
    [lo |-> 20240628, hi |-> 20240727, bad |-> 0, loose |-> 0, failAt |-> 1, neterr |-> FALSE, status |-> 400]

InitLazy ==
    /\ authenticated = FALSE
    /\ cookie_dict = "None"
    /\ refresh_token = "None"
    /\ token_expiry = "None"
    /\ service_id = 7
    /\ rollover_day = 28
    /\ history = EmptyDict
    /\ calls = 0
    /\ pre = EmptyDict
    /\ last = NoCall
    /\ \E refresh \in RefreshValues : InitAccount(refresh)

\* time.time() has advanced by dt seconds.
Tick(dt) ==
    /\ clock.ticks < MaxTicks
    /\ clock' = [now |-> clock.now + dt, ticks |-> clock.ticks + 1]
    /\ UNCHANGED << authenticated, cookie_dict, refresh_token, token_expiry, service_id,
                    rollover_day, history, calls, pre, last,
                    cache_refresh, customer, overview, access, fleet, race >>

\* abb.customer
AccessCustomer(reply) ==
    /\ calls < MaxCalls
    /\ LET c == CachedRead(customer, clock.now, cache_refresh,
                           CustomerCreate(authenticated, reply))
       IN  /\ customer' = c.cache
           /\ access' = [what |-> "customer", had |-> customer, at |-> clock.now,
                         status |-> reply.status,
                         fetches |-> c.fetches, err |-> c.err, ret |-> c.ret]
    /\ calls' = calls + 1
    /\ UNCHANGED << authenticated, cookie_dict, refresh_token, token_expiry, service_id,
                    rollover_day, history, pre, last, cache_refresh, clock, overview,
                    fleet, race >>

\* service.usage_overview
AccessOverview(reply) ==
    /\ calls < MaxCalls
    /\ LET c == CachedRead(overview, clock.now, cache_refresh,
                           OverviewCreate(authenticated, service_id, reply))
       IN  /\ overview' = c.cache
           /\ access' = [what |-> "overview", had |-> overview, at |-> clock.now,
                         status |-> reply.status,
                         fetches |-> c.fetches, err |-> c.err, ret |-> c.ret]
    /\ calls' = calls + 1
    /\ UNCHANGED << authenticated, cookie_dict, refresh_token, token_expiry, service_id,
                    rollover_day, history, pre, last, cache_refresh, clock, customer,
                    fleet, race >>

NextLazy ==
    \/ \E status \in {200, 401}, cookies \in BOOLEAN, tokens \in BOOLEAN :
          Login(status, cookies, tokens)
    \/ \E dt \in TickSeconds : Tick(dt)
    \/ \E reply \in AccountReplies : AccessCustomer(reply)
    \/ \E reply \in AccountReplies : AccessOverview(reply)
    \/ \E sc \in {PlainScenario, Http400Scenario} : Get(K_2024_07_05, sc)

SpecLazy == InitLazy /\ [][NextLazy]_vars

(***************************************************************************)
(* A fourth specification, for two services of one customer: each has its  *)
(* own UsageHistoryDict, and gets and sets go through either.              *)
(***************************************************************************)
\* The _history dicts of the two UsageHistoryDict instances.
Caches == [mine |-> history, other |-> other.history]

\* OwnHistory with _history as one dict of the class, shared by every instance.
SharedHistory(which, caches) == caches.mine

\* self._history of the instance of the service: each instance is given a
\* dict of its own by __init__.
OwnHistory(which, caches) == caches[which]

\* self._service of the instance: the service it was created for.
OwnService(which) ==
    IF which = "mine" THEN [service_id |-> service_id, rollover_day |-> rollover_day]
    ELSE [service_id |-> other.service_id, rollover_day |-> other.rollover_day]

ShortScenario ==
    [lo |-> 20240628, hi |-> 20240704, bad |-> 0, loose |-> 0, failAt |-> 0, neterr |-> FALSE, status |-> 200]

ServiceKeys == { K_2024_07_05, K_2024_06_28, K_2024_07 }

InitServices ==
    /\ authenticated = TRUE
    /\ cookie_dict = "cookies"
    /\ refresh_token = "token"
    /\ token_expiry = "expiry"
    /\ service_id = 7
    /\ rollover_day \in RolloverDays
    /\ history = EmptyDict
    /\ calls = 0
    /\ pre = EmptyDict
    /\ last = NoCall
    /\ InitAccount(DefaultCacheRefresh)

\* service.usage_history[key] of either service
ServiceGet(which, key, sc) ==
    /\ calls < MaxCalls
    /\ LET own == OwnHistory(which, Caches)
           g == GetItem(own, key, authenticated, OwnService(which).service_id,
                        OwnService(which).rollover_day, sc)
           new == [Caches EXCEPT ![which] = g.ctx.hist]
       IN  /\ history' = new.mine
           /\ other' = [other EXCEPT !.history = new.other]
           /\ pre' = own
           /\ last' = [op |-> "get", key |-> key, value |-> << >>, result |-> g.result,
                       err |-> g.ctx.err, fetches |-> g.ctx.fetches]
    /\ via' = which
    /\ UNCHANGED heap
    /\ calls' = calls + 1
    /\ UNCHANGED << authenticated, cookie_dict, refresh_token, token_expiry,
                    service_id, rollover_day, account, race >>

\* service.usage_history[key] = value of either service
ServiceSet(which, key, value) ==
    /\ calls < MaxCalls
    /\ LET own == OwnHistory(which, Caches)
           st == SetItem(own, key, value)
           new == [Caches EXCEPT ![which] = st.hist]
       IN  /\ history' = new.mine
           /\ other' = [other EXCEPT !.history = new.other]
           /\ pre' = own
           /\ last' = [op |-> "set", key |-> key, value |-> << value >>, result |-> << >>,
                       err |-> st.err, fetches |-> << >>]
    /\ via' = which
    /\ UNCHANGED heap
    /\ calls' = calls + 1
    /\ UNCHANGED << authenticated, cookie_dict, refresh_token, token_expiry,
                    service_id, rollover_day, account, race >>

NextServices ==
    \/ \E which \in {"mine", "other"}, key \in ServiceKeys,
          sc \in {PlainScenario, ShortScenario} : ServiceGet(which, key, sc)
    \/ \E which \in {"mine", "other"}, key \in {K_2024_07_05, K_2024_7_5},
          value \in SetValues : ServiceSet(which, key, value)

SpecServices == InitServices /\ [][NextServices]_vars

(***************************************************************************)
(* A fifth specification, for two threads that call get('2024-07-05') on   *)
(* the same empty cache with no lock: each runs _try_get_date statement by *)
(* statement, and the statements of the two interleave in any order.       *)
(***************************************************************************)
\* Cached that never finds the key.
CachedNever(hist, key) == FALSE

\* "if key in self._history" at the head of _try_get_date.
Cached(hist, key) == key \in DOMAIN hist

\* What the provider answers to a thread's request: data that holds the
\* day, data that does not, or status 400.
ThreadScenarios ==
    { [lo |-> 20240704, hi |-> 20240706, bad |-> 0, loose |-> 0, failAt |-> 0, neterr |-> FALSE, status |-> 200],
      [lo |-> 20240628, hi |-> 20240629, bad |-> 0, loose |-> 0, failAt |-> 0, neterr |-> FALSE, status |-> 200],
      Http400Scenario }

InitThreads ==
    /\ authenticated = TRUE
    /\ cookie_dict = "cookies"
    /\ refresh_token = "token"
    /\ token_expiry = "expiry"
    /\ service_id = 7
    /\ rollover_day = 28
    /\ history = EmptyDict
    /\ calls = 0
    /\ pre = EmptyDict
    /\ last = NoCall
    /\ InitAccount(DefaultCacheRefresh)

\* The thread is between its cache check and its return.
Inside(th) == th.pc \in {"miss", "fetched", "written"}

ThreadFrame ==
    UNCHANGED << authenticated, cookie_dict, refresh_token, token_expiry, service_id,
                 rollover_day, calls, pre, last, account, fleet >>

\* Lines 493-494: the check, and the return of a cached record.
Check(t) ==
    /\ threads[t].pc = "start"
    /\ IF Cached(history, threads[t].key)
       THEN /\ threads' = [threads EXCEPT ![t].pc = "done",
                                          ![t].ret = << history[threads[t].key] >>]
            /\ UNCHANGED overlapped
       ELSE /\ threads' = [threads EXCEPT ![t].pc = "miss"]
            /\ overlapped' = (overlapped \/ \E u \in {1, 2} \ {t} : Inside(threads[u]))
    /\ UNCHANGED << history, fetchlog >>
    /\ ThreadFrame

\* Lines 496-514: the month of the key, and the request for it.
Fetch(t, sc) ==
    /\ threads[t].pc = "miss"
    /\ LET key == threads[t].key
           ym == ResolveMonth(ToInt(key[1]), ToInt(key[2]), ToInt(key[3]), rollover_day)
           endpoint == Endpoint(service_id, ym[1], ym[2])
           req == AuthenticatedGet(authenticated, endpoint,
                                   ServerReply(sc, 1, rollover_day, endpoint))
       IN  /\ fetchlog' = Append(fetchlog, [thread |-> t, req |-> req])
           /\ threads' = IF req.error # "none"
                         THEN [threads EXCEPT ![t].pc = "done", ![t].err = req.error]
                         ELSE [threads EXCEPT ![t].pc = "fetched", ![t].req = << req >>,
                                              ![t].i = 1]
    /\ UNCHANGED << history, overlapped >>
    /\ ThreadFrame

\* Lines 518-519: one turn of the loop over json['data'].
Write(t) ==
    /\ threads[t].pc = "fetched"
    /\ LET data == threads[t].req[1].data
           i == threads[t].i
       IN  IF i > Len(data)
           THEN /\ threads' = [threads EXCEPT ![t].pc = "written"]
                /\ UNCHANGED history
           ELSE LET ing == Ingest(history, << data[i] >>, 1)
                IN  /\ history' = ing.hist
                    /\ threads' = IF ing.err # "none"
                                  THEN [threads EXCEPT ![t].pc = "done", ![t].err = ing.err]
                                  ELSE [threads EXCEPT ![t].i = i + 1]
    /\ UNCHANGED << fetchlog, overlapped >>
    /\ ThreadFrame

\* Lines 522-527: the second look at the cache, and the return.
Return(t) ==
    /\ threads[t].pc = "written"
    /\ threads' = [threads EXCEPT
                      ![t].pc = "done",
                      ![t].ret = IF threads[t].key \in DOMAIN history
                                 THEN << history[threads[t].key] >> ELSE << >>]
    /\ UNCHANGED << history, fetchlog, overlapped >>
    /\ ThreadFrame

NextThreads ==
    \/ \E t \in {1, 2} : Check(t)
    \/ \E t \in {1, 2}, sc \in ThreadScenarios : Fetch(t, sc)
    \/ \E t \in {1, 2} : Write(t)
    \/ \E t \in {1, 2} : Return(t)

SpecThreads == InitThreads /\ [][NextThreads]_vars

(***************************************************************************)
(* A sixth specification, for the objects behind abb.services: each fetch  *)
(* of the customer builds new NBNService objects, the caller may hold any  *)
(* service built so far, and reads and writes its usage_history while the  *)
(* clock advances.                                                         *)
(***************************************************************************)
\* Number of reads of abb.services and of usage_history items in one
\* behaviour.
MaxOps == 3

\* The day read and written: PlainScenario holds it, ShortScenario does not.
ObjectKeys == { K_2024_07_05 }

\* What the provider answers to "customer" here: a customer with one
\* service, or HTTP 400.
ObjectReplies == { reply \in AccountReplies :
                     reply.status = 400 \/ (reply.status = 200 /\ reply.data.phone = 1
                                                /\ reply.data.complete) }

InitObjects ==
    /\ authenticated = TRUE
    /\ cookie_dict = "cookies"
    /\ refresh_token = "token"
    /\ token_expiry = "expiry"
    /\ service_id = 7
    /\ rollover_day = 28
    /\ history = EmptyDict
    /\ calls = 0
    /\ pre = EmptyDict
    /\ last = NoCall
    /\ \E refresh \in RefreshValues : InitAccount(refresh)

\* _history of the UsageHistoryDict a service holds, if it holds one.
HeldDays(svc) ==
    IF svc.usage_history.value = << >> THEN EmptyDict
    ELSE svc.usage_history.value[1].history

\* abb.services
AccessServices(reply) ==
    /\ calls < MaxOps
    /\ LET c == CachedRead(customer, clock.now, cache_refresh,
                           CustomerCreate(authenticated, reply))
           built == c.fetches # << >> /\ c.err = "none"
           placed == Place(heap, c.cache.value[1])
           cache == IF built THEN [c.cache EXCEPT !.value = << placed.customer >>]
                    ELSE c.cache
       IN  /\ customer' = cache
           /\ heap' = IF built THEN placed.heap ELSE heap
           /\ access' = [what |-> "services", had |-> customer, at |-> clock.now,
                         status |-> reply.status, fetches |-> c.fetches, err |-> c.err,
                         ret |-> IF c.err = "none" THEN << cache.value[1].services >>
                                 ELSE << >>]
    /\ calls' = calls + 1
    /\ UNCHANGED << authenticated, cookie_dict, refresh_token, token_expiry, service_id,
                    rollover_day, history, pre, last, cache_refresh, clock, overview,
                    other, via, race >>

\* svc.usage_history[key], svc being the service at place s
HistoryGet(s, key, sc) ==
    /\ calls < MaxOps
    /\ s \in DOMAIN heap
    /\ LET svc == UsageHistoryGetter(heap[s], clock.now, cache_refresh, calls + 1)
           g == GetItem(HeldDays(svc), key, authenticated, svc.service_id,
                        svc.rollover_day, sc)
       IN  /\ heap' = [heap EXCEPT ![s] =
                          [svc EXCEPT !.usage_history.value[1].history = g.ctx.hist]]
           /\ last' = [op |-> "get", key |-> key, value |-> << >>, result |-> g.result,
                       err |-> g.ctx.err, fetches |-> g.ctx.fetches]
    /\ access' = [what |-> "history", had |-> heap[s].usage_history, at |-> clock.now,
                  status |-> 0, fetches |-> << >>, err |-> "none", ret |-> << >>]
    /\ pre' = HeldDays(heap[s])
    /\ via' = s
    /\ calls' = calls + 1
    /\ UNCHANGED << authenticated, cookie_dict, refresh_token, token_expiry, service_id,
                    rollover_day, history, cache_refresh, clock, customer, overview,
                    other, race >>

\* svc.usage_history[key] = value, svc being the service at place s
HistorySet(s, key, value) ==
    /\ calls < MaxOps
    /\ s \in DOMAIN heap
    /\ LET svc == UsageHistoryGetter(heap[s], clock.now, cache_refresh, calls + 1)
           st == SetItem(HeldDays(svc), key, value)
       IN  /\ heap' = [heap EXCEPT ![s] =
                          [svc EXCEPT !.usage_history.value[1].history = st.hist]]
           /\ last' = [op |-> "set", key |-> key, value |-> << value >>,
                       result |-> << >>, err |-> st.err, fetches |-> << >>]
    /\ access' = [what |-> "history", had |-> heap[s].usage_history, at |-> clock.now,
                  status |-> 0, fetches |-> << >>, err |-> "none", ret |-> << >>]
    /\ pre' = HeldDays(heap[s])
    /\ via' = s
    /\ calls' = calls + 1
    /\ UNCHANGED << authenticated, cookie_dict, refresh_token, token_expiry, service_id,
                    rollover_day, history, cache_refresh, clock, customer, overview,
                    other, race >>

NextObjects ==
    \/ \E dt \in TickSeconds : Tick(dt)
    \/ \E reply \in ObjectReplies : AccessServices(reply)
    \/ \E s \in 1..MaxOps, key \in ObjectKeys, sc \in {PlainScenario, ShortScenario} :
          HistoryGet(s, key, sc)
    \/ \E s \in 1..MaxOps, key \in ObjectKeys, value \in SetValues :
          HistorySet(s, key, value)

SpecObjects == InitObjects /\ [][NextObjects]_vars

(***************************************************************************)
(* A seventh specification, for the session of the client: instances are   *)
(* built with and without a cache_refresh, logins succeed and fail at each *)
(* of the three checks, the clock advances and customer is read.           *)
(***************************************************************************)
\* The largest cache_refresh tried: integers of the model have 32 bits.
LargeRefresh == 2000000000

\* The arguments AussieBB is built with: none, and those of
\* init_customCacheRefreshDuration_successful.
InitArgs == { << >>, << 0 >>, << 1 >>, << 5 >>, << 123456 >>, << LargeRefresh >> }

\* The record of a call of the constructor.
InitCall(args) ==
    [op |-> "init", key |-> << >>, value |-> args, result |-> << >>,
     err |-> "none", fetches |-> << >>]

\* After abb = AussieBB().
InitSession ==
    /\ authenticated = AussieBBInit(<< >>).authenticated
    /\ cookie_dict = AussieBBInit(<< >>).cookie_dict
    /\ refresh_token = AussieBBInit(<< >>).refresh_token
    /\ token_expiry = AussieBBInit(<< >>).token_expiry
    /\ service_id = 7
    /\ rollover_day = 28
    /\ history = EmptyDict
    /\ calls = 0
    /\ pre = EmptyDict
    /\ last = InitCall(<< >>)
    /\ InitAccount(AussieBBInit(<< >>).cache_refresh)

\* abb = AussieBB(*args): the variables of the client are those of the new
\* instance from here on, and nothing has been read through it.
New(args) ==
    /\ LET abb == AussieBBInit(args)
       IN  /\ cookie_dict' = abb.cookie_dict
           /\ refresh_token' = abb.refresh_token
           /\ token_expiry' = abb.token_expiry
           /\ authenticated' = abb.authenticated
           /\ cache_refresh' = abb.cache_refresh
           /\ customer' = abb.customer
    /\ last' = InitCall(args)
    /\ access' = NoAccess
    /\ UNCHANGED << service_id, rollover_day, history, calls, pre, clock, overview,
                    fleet, race >>

NextSession ==
    \/ \E args \in InitArgs : New(args)
    \/ \E status \in {200, 401}, cookies \in BOOLEAN, tokens \in BOOLEAN :
          Login(status, cookies, tokens)
    \/ \E dt \in TickSeconds : Tick(dt)
    \/ \E reply \in AccountReplies : AccessCustomer(reply)

SpecSession == InitSession /\ [][NextSession]_vars

(***************************************************************************)
(* Vocabulary of the properties.                                           *)
(***************************************************************************)
\* The key names a real day: YYYY-M-D with month 1..12 and a day of that month.
IsFullDate(key) ==
    /\ GetItemMatch(key)
    /\ Len(key) = 3
    /\ ToInt(key[2]) \in 1..12
    /\ ToInt(key[3]) \in 1..NDays(ToInt(key[1]), ToInt(key[2]))

\* The key names a real month: YYYY-M with month 1..12.
IsYearMonth(key) ==
    /\ GetItemMatch(key)
    /\ Len(key) = 2
    /\ ToInt(key[2]) \in 1..12

\* The key names a year: YYYY.
IsYearOnly(key) == GetItemMatch(key) /\ Len(key) = 1

\* The zero-padded YYYY-MM-DD string of the day a full-date key names.
DateString(key) ==
    << key[1], Pad2(ToInt(key[2])), Pad2(ToInt(key[3])) >>

\* The dates of the entries of a "data" array.
DataDates(data) == { data[i].date : i \in 1..Len(data) }

\* The number of HTTP requests among the fetches of a call.
RECURSIVE Requests(_)
Requests(fetches) ==
    IF Len(fetches) = 0 THEN 0
    ELSE Requests(Tail(fetches)) + (IF Head(fetches).sent THEN 1 ELSE 0)

\* This step is a second get of the key the last call was a get of.
SameGetAgain ==
    /\ calls' = calls + 1
    /\ last.op = "get"
    /\ last'.op = "get"
    /\ last'.key = last.key

(***************************************************************************)
(* The properties.                                                         *)
(***************************************************************************)
\* C1 as stated: for every valid full-date key K that is not cached, two
\* gets of K in a row (both returning) send exactly one request in total.
C1_OneFetchForTwoGets ==
    [][ ( /\ SameGetAgain
          /\ IsFullDate(last.key)
          /\ DateString(last.key) \notin DOMAIN pre
          /\ last.err = "none"
          /\ last'.err = "none" )
        => Requests(last.fetches) + Requests(last'.fetches) = 1 ]_vars

\* C1, amended: when the first get of an uncached valid full date K fetches
\* successfully, then if the response has an entry for K the second get is
\* served from the cache (one request in total, same record returned), and
\* if it has none the second get calls the fetch collaborator again.
C1_SecondGetServedWhenIngested ==
    [][ ( /\ SameGetAgain
          /\ IsFullDate(last.key)
          /\ DateString(last.key) \notin DOMAIN pre
          /\ Len(last.fetches) = 1
          /\ last.fetches[1].error = "none"
          /\ last.err = "none" )
        => IF DateString(last.key) \in DataDates(last.fetches[1].data)
           THEN /\ Requests(last.fetches) + Requests(last'.fetches) = 1
                /\ last'.fetches = << >>
                /\ last'.err = "none"
                /\ last'.result = last.result
                /\ Len(last.result) = 1
           ELSE Len(last'.fetches) = 1 ]_vars

\* C1 witness: a get of an uncached valid full date has fetched once, the
\* response held the day, and a further call can follow.
C1_Witness ==
    /\ last.op = "get"
    /\ IsFullDate(last.key)
    /\ DateString(last.key) \notin DOMAIN pre
    /\ Len(last.fetches) = 1
    /\ last.fetches[1].error = "none"
    /\ DateString(last.key) \in DataDates(last.fetches[1].data)
    /\ DateString(last.key) \in DOMAIN history
    /\ calls < MaxCalls

\* C2: on a cache miss for the date (y, m, d), the month fetched is the
\* previous calendar month when d < rollover_day (January wrapping to
\* December of y - 1) and (y, m) itself otherwise.
C2_ResolvedMonth ==
    (last.op = "get" /\ IsFullDate(last.key))
    => LET y == ToInt(last.key[1])
           m == ToInt(last.key[2])
           d == ToInt(last.key[3])
       IN  /\ Len(last.fetches) = 1
           /\ last.fetches[1].endpoint.service = service_id
           /\ IF d < rollover_day
              THEN IF m = 1
                   THEN /\ last.fetches[1].endpoint.year = y - 1
                        /\ last.fetches[1].endpoint.month = 12
                   ELSE /\ last.fetches[1].endpoint.year = y
                        /\ last.fetches[1].endpoint.month = m - 1
              ELSE /\ last.fetches[1].endpoint.year = y
                   /\ last.fetches[1].endpoint.month = m

\* C2 witness: a January day before the rollover day was fetched from
\* December of the year before.
C2_Witness ==
    /\ last.op = "get"
    /\ ToInt(last.key[2]) = 1
    /\ ToInt(last.key[3]) < rollover_day
    /\ Len(last.fetches) = 1
    /\ last.fetches[1].endpoint.month = 12
    /\ last.fetches[1].endpoint.year = ToInt(last.key[1]) - 1

\* C3 as stated: a get with a key that names no year, month or day fails
\* with KeyError, calls the fetch collaborator zero times and leaves the
\* cache as it was.
C3_MalformedGetFailsFast ==
    (last.op = "get" /\ ~IsYearOnly(last.key) /\ ~IsYearMonth(last.key) /\ ~IsFullDate(last.key))
    => /\ last.err = "KeyError"
       /\ last.fetches = << >>
       /\ history = pre

\* The keys of a cache that name a real day of the year, or of the month
\* when month is not 0.
CachedDays(hist, year, month) ==
    { k \in DOMAIN hist : /\ IsFullDate(k)
                          /\ KeyRegexMatch(k)
                          /\ ToInt(k[1]) = year
                          /\ (month # 0 => ToInt(k[2]) = month) }

\* The keys of a set of YYYY-MM-DD keys in ascending date order.
RECURSIVE Ascending(_)
Ascending(keys) ==
    IF keys = {} THEN << >>
    ELSE LET first == CHOOSE k \in keys : \A j \in keys :
                         DateNum(ToInt(k[1]), ToInt(k[2]), ToInt(k[3]))
                             <= DateNum(ToInt(j[1]), ToInt(j[2]), ToInt(j[3]))
         IN  << first >> \o Ascending(keys \ {first})

\* The records a cache holds for a set of keys, in ascending date order.
RecordsOf(hist, keys) ==
    [i \in 1..Len(Ascending(keys)) |-> hist[Ascending(keys)[i]]]

\* C4 as stated: a year-only get that returns has looked up every day of the
\* 12 months of the year, so it returns the record of every day of that year
\* the cache then holds, in ascending date order.
C4_YearGetReturnsEveryDay ==
    (last.op = "get" /\ IsYearOnly(last.key) /\ last.err = "none")
    => last.result = RecordsOf(history, CachedDays(history, ToInt(last.key[1]), 0))

\* C5 as stated: a month-only get that returns gives the record of every day
\* of that month the cache then holds, in ascending date order, and nothing
\* else.
C5_MonthGetReturnsEveryDay ==
    (last.op = "get" /\ IsYearMonth(last.key) /\ last.err = "none")
    => last.result = RecordsOf(history, CachedDays(history, ToInt(last.key[1]),
                                                   ToInt(last.key[2])))

\* C6 as stated: set(K, V) that succeeded followed by get(K) returns [V] and
\* calls the fetch collaborator zero times.
C6_SetThenGetRoundTrip ==
    [][ ( /\ calls' = calls + 1
          /\ last.op = "set"
          /\ last.err = "none"
          /\ last'.op = "get"
          /\ last'.key = last.key )
        => /\ last'.err = "none"
           /\ last'.result = last.value
           /\ last'.fetches = << >> ]_vars

\* Every entry of every response the last call fetched is in the cache.
ResponsesIngested ==
    \A n \in 1..Len(last.fetches) : \A i \in 1..Len(last.fetches[n].data) :
        LET e == last.fetches[n].data[i]
        IN  /\ e.date \in DOMAIN history
            /\ history[e.date] = UsageHistory(e.date, e.download, e.upload)

\* C7: after a get that missed the cache, fetched and returned, every entry
\* of the response is in the cache (not only the day asked for), and a get
\* of any date of that response that follows is served from the cache
\* without a fetch.
C7_WholeResponseCached ==
    [][ /\ (last'.op = "get" /\ last'.err = "none") => ResponsesIngested'
        /\ ( /\ calls' = calls + 1
             /\ last.op = "get"
             /\ last.err = "none"
             /\ last'.op = "get"
             /\ IsFullDate(last'.key)
             /\ \E n \in 1..Len(last.fetches) :
                   DateString(last'.key) \in DataDates(last.fetches[n].data) )
           => /\ last'.fetches = << >>
              /\ last'.err = "none"
              /\ last'.result = << history[DateString(last'.key)] >> ]_vars

\* C7 witness: with rollover day 28 and an empty cache, get("2024-07-05")
\* has fetched (2024, 6) once and the cache holds 2024-06-28 .. 2024-07-27.
C7_Witness ==
    /\ rollover_day = 28
    /\ last.op = "get"
    /\ last.key = K_2024_07_05
    /\ pre = EmptyDict
    /\ Len(last.fetches) = 1
    /\ last.fetches[1].endpoint = Endpoint(service_id, 2024, 6)
    /\ Len(last.fetches[1].data) = 30
    /\ K_2024_06_28 \in DOMAIN history
    /\ << <<2,0,2,4>>, <<0,7>>, <<2,7>> >> \in DOMAIN history
    /\ Len(last.result) = 1
    /\ calls < MaxCalls

\* The entries of a response all have their three fields.
WellFormed(data) ==
    \A i \in 1..Len(data) : DOMAIN data[i] = {"date", "download", "upload"}

\* C8 as stated: an exact-date get of a real day that is cached, or whose one
\* fetch succeeds with a well-formed response, returns without an error: the
\* one-element list of the day's record if the day is cached or in the
\* response, the empty list if the response has no entry for it.
C8_ExactDateResult ==
    (/\ last.op = "get"
     /\ IsFullDate(last.key)
     /\ \/ DateString(last.key) \in DOMAIN pre
        \/ /\ Len(last.fetches) = 1
           /\ last.fetches[1].error = "none"
           /\ WellFormed(last.fetches[1].data))
    => /\ last.err = "none"
       /\ IF DateString(last.key) \in DOMAIN pre
          THEN last.result = << pre[DateString(last.key)] >>
          ELSE IF DateString(last.key) \in DataDates(last.fetches[1].data)
          THEN /\ Len(last.result) = 1
               /\ last.result[1].date = DateString(last.key)
          ELSE last.result = << >>

\* The fetches of the last call that failed.
FailedFetches == { n \in 1..Len(last.fetches) : last.fetches[n].error # "none" }

\* C9 as stated: when a fetch fails during a get, the get fails with that
\* error, one fetch attempt has been made, and the cache is as before the call.
C9_FetchFailureLeavesCache ==
    (last.op = "get" /\ FailedFetches # {})
    => /\ \A n \in FailedFetches : last.err = last.fetches[n].error
       /\ Len(last.fetches) = 1
       /\ history = pre

\* The cache pre after the responses of the fetches 1..n were written to it.
AfterResponses(n) ==
    LET dates == UNION { DataDates(last.fetches[j].data) : j \in 1..n }
        entry(k) == CHOOSE e \in UNION { { last.fetches[j].data[i] :
                                           i \in 1..Len(last.fetches[j].data) } : j \in 1..n } :
                        e.date = k
    IN  [k \in DOMAIN pre \cup dates |->
            IF k \in dates
            THEN UsageHistory(k, entry(k).download, entry(k).upload)
            ELSE pre[k]]

\* C9, amended: when a fetch fails during a get, the get fails with that
\* error; the failed fetch is the last fetch of the call and was attempted
\* once (no retry, nothing returned); the cache holds what it held before
\* the call and the responses of the fetches that succeeded earlier in the
\* same call; for an exact-date get that is one attempt and an unchanged cache.
C9_FetchFailurePropagates ==
    (last.op = "get" /\ FailedFetches # {})
    => /\ FailedFetches = { Len(last.fetches) }
       /\ last.err = last.fetches[Len(last.fetches)].error
       /\ last.result = << >>
       /\ history = AfterResponses(Len(last.fetches) - 1)
       /\ Len(last.key) = 3 /\ ~NotGroup(last.key, 3)
          => (Len(last.fetches) = 1 /\ history = pre)

\* C9 witness: a month get whose second fetch failed after its first fetch
\* was written to the cache.
C9_Witness ==
    /\ last.op = "get"
    /\ Len(last.fetches) = 2
    /\ last.fetches[1].error = "none"
    /\ last.fetches[2].error = "ConnectionError"
    /\ last.err = "ConnectionError"
    /\ history # pre

\* An entry of a response is in the cache.
EntryCached(e) ==
    /\ e.date \in DOMAIN history
    /\ DOMAIN e = {"date", "download", "upload"}
    /\ history[e.date] = UsageHistory(e.date, e.download, e.upload)

\* Nothing was written for an entry of a response.
EntryUnwritten(e) ==
    IF e.date \in DOMAIN pre
    THEN e.date \in DOMAIN history /\ history[e.date] = pre[e.date]
    ELSE e.date \notin DOMAIN history

\* C10 as stated: after a get, for each fetch it made either every entry of
\* the response is in the cache or none of them was written.
C10_BatchAllOrNothing ==
    last.op = "get"
    => \A n \in 1..Len(last.fetches) :
          \/ \A i \in 1..Len(last.fetches[n].data) : EntryCached(last.fetches[n].data[i])
          \/ \A i \in 1..Len(last.fetches[n].data) : EntryUnwritten(last.fetches[n].data[i])

\* The string is a date written YYYY-MM-DD: four digits, two digits, two
\* digits, and nothing else.
IsDateString(key) ==
    /\ Len(key) = 3
    /\ IsDigits(key[1], 4, 4)
    /\ IsDigits(key[2], 2, 2)
    /\ IsDigits(key[3], 2, 2)

\* C11 as stated: in every reachable state every key of the cache is a
\* YYYY-MM-DD date string.
C11_CacheKeysAreDates ==
    \A k \in DOMAIN history : IsDateString(k)

\* C12 as stated: a set sends no request; with a key that is no YYYY-MM-DD
\* string it fails with KeyError and leaves the cache as it was; with a
\* YYYY-MM-DD key it changes the entry of that key to the value and no other.
C12_SetValidatesKey ==
    last.op = "set"
    => /\ last.fetches = << >>
       /\ IF IsDateString(last.key)
          THEN /\ last.err = "none"
               /\ DOMAIN history = DOMAIN pre \cup {last.key}
               /\ history[last.key] = last.value[1]
               /\ \A k \in DOMAIN pre \ {last.key} : history[k] = pre[k]
          ELSE /\ last.err = "KeyError"
               /\ history = pre

\* C13 as stated: a get of one exact date that is not cached calls the fetch
\* collaborator exactly once, and every request a get sends is for
\* broadband/{service_id}/usage/{year}/{month} of the owning service with a
\* month in 1..12.
C13_OneFetchPerMissValidPath ==
    last.op = "get"
    => /\ (IsFullDate(last.key) /\ DateString(last.key) \notin DOMAIN pre)
          => Len(last.fetches) = 1
       /\ \A n \in 1..Len(last.fetches) :
             last.fetches[n].sent
             => /\ last.fetches[n].endpoint.service = service_id
                /\ last.fetches[n].endpoint.month \in 1..12

\* The last call was a get of a valid full date that fetched once, with
\* success, a response that has no entry for the date.
AbsentDayFetched ==
    /\ last.op = "get"
    /\ IsFullDate(last.key)
    /\ Len(last.fetches) = 1
    /\ last.fetches[1].error = "none"
    /\ last.err = "none"
    /\ DateString(last.key) \notin DataDates(last.fetches[1].data)

\* C14 as stated: a get of a full date the response has no entry for returns
\* [], and the same get made again on the same cache does not fetch.
C14_AbsentDayNotRefetched ==
    [][ (SameGetAgain /\ AbsentDayFetched)
        => /\ last.result = << >>
           /\ last'.fetches = << >> ]_vars

\* C14, amended: a get of a full date the response has no entry for returns
\* [] and caches nothing for the date; the same get made again on the same
\* cache sends one request again, for the same month.
C14_AbsentDayRefetched ==
    [][ (SameGetAgain /\ AbsentDayFetched)
        => /\ last.result = << >>
           /\ DateString(last.key) \notin DOMAIN history
           /\ Requests(last'.fetches) = 1
           /\ Len(last'.fetches) = 1
           /\ last'.fetches[1].endpoint = last.fetches[1].endpoint ]_vars

\* C14 witness: get("2024-01-03") fetched a month of which the provider has
\* no data, returned [], and a further call can follow.
C14_Witness ==
    /\ AbsentDayFetched
    /\ last.key = K_2024_01_03
    /\ last.fetches[1].data = << >>
    /\ last.result = << >>
    /\ K_2024_01_03 \notin DOMAIN history
    /\ calls < MaxCalls

\* The cached property the last read was of, as it is now.
CacheRead ==
    IF access.what = "customer" THEN customer ELSE overview

\* When the last read started, a value was cached and no more than
\* cache_refresh had passed since it was fetched.
WasFresh ==
    /\ access.had.value # << >>
    /\ access.at - access.had.updated <= cache_refresh

\* C15: a read of customer or usage_overview while a value is cached and
\* now - last_fetch <= cache_refresh makes no fetch, returns the cached value
\* and leaves value and time as they were; a fetch is made only when nothing
\* is cached or now - last_fetch > cache_refresh.
C15_FreshValueServed ==
    access.what # "none"
    => /\ WasFresh => /\ access.fetches = << >>
                      /\ access.err = "none"
                      /\ access.ret = access.had.value
                      /\ CacheRead = access.had
       /\ access.fetches # << >>
          => \/ access.had.value = << >>
             \/ access.at - access.had.updated > cache_refresh

\* C15 witness: usage_overview was read exactly cache_refresh after it was
\* fetched, and the cached value came back without a fetch.
C15_Witness ==
    /\ access.what = "overview"
    /\ access.had.value # << >>
    /\ access.at - access.had.updated = cache_refresh
    /\ access.fetches = << >>
    /\ access.ret = access.had.value

\* The object was built from the body of the response.
BuiltFrom(what, obj, data) ==
    IF what = "customer" THEN obj.phone = data.phone ELSE obj.total = data.usedMb

\* C16: a read of customer or usage_overview that finds it absent or stale
\* makes exactly one fetch; if the fetch and the construction succeed, the
\* value built from the response and the time of the read replace the
\* cached pair together; if they fail, value and time are as before.  So a
\* value is cached exactly when a time is.
C16_RefreshReplacesPair ==
    /\ (access.what # "none" /\ ~WasFresh)
       => /\ Len(access.fetches) = 1
          /\ IF access.err = "none"
             THEN /\ Len(access.ret) = 1
                  /\ BuiltFrom(access.what, access.ret[1], access.fetches[1].data)
                  /\ CacheRead.value = access.ret
                  /\ CacheRead.updated = access.at
             ELSE /\ access.ret = << >>
                  /\ CacheRead = access.had
    /\ (customer.value = << >>) <=> (customer.updated = 0)
    /\ (overview.value = << >>) <=> (overview.updated = 0)

\* C16 witness: customer was stale, was fetched again, and a new value with
\* the time of the read replaced the old pair.
C16_Witness ==
    /\ access.what = "customer"
    /\ access.had.value # << >>
    /\ access.at - access.had.updated > cache_refresh
    /\ access.err = "none"
    /\ customer.value # access.had.value
    /\ customer.updated = access.at
    /\ customer.updated # access.had.updated

\* C17 as stated: with the default cache_refresh, a read of customer or
\* usage_overview made more than 120 seconds after the value was fetched
\* sends a new request.
C17_DefaultRefreshAfter120Seconds ==
    ( /\ cache_refresh = DefaultCacheRefresh
      /\ access.what # "none"
      /\ access.had.value # << >>
      /\ access.at - access.had.updated > 120 )
    => Len(access.fetches) = 1

\* C18: while no login has succeeded, a read of customer or usage_overview
\* and a get of an uncached date fail as unauthenticated without an HTTP
\* request, and every cache is empty; after a login, a response with a
\* status of 400 or more makes the read or the get fail and caches nothing.
C18_NoFetchBeforeLogin ==
    /\ ~authenticated
       => /\ customer = EmptyCache
          /\ overview = EmptyCache
          /\ history = EmptyDict
          /\ access.what # "none"
             => /\ access.err = "Unauthenticated"
                /\ Len(access.fetches) = 1
                /\ ~access.fetches[1].sent
                /\ access.ret = << >>
          /\ last.op = "get"
             => /\ last.err = "Unauthenticated"
                /\ Len(last.fetches) = 1
                /\ Requests(last.fetches) = 0
                /\ last.result = << >>
    /\ ( /\ access.what # "none"
         /\ access.fetches # << >>
         /\ access.fetches[1].sent
         /\ access.status >= 400 )
       => /\ access.err = "HttpError"
          /\ access.ret = << >>
          /\ CacheRead = access.had
    /\ ( /\ last.op = "get"
         /\ \E n \in 1..Len(last.fetches) : last.fetches[n].error = "HttpError" )
       => /\ last.err = "HttpError"
          /\ last.result = << >>
          /\ history = pre

\* C18 witness: without a login, customer was read and a date was looked
\* up; both failed as unauthenticated and nothing is cached.
C18_Witness ==
    /\ ~authenticated
    /\ access.what = "customer"
    /\ access.err = "Unauthenticated"
    /\ last.op = "get"
    /\ last.err = "Unauthenticated"
    /\ customer = EmptyCache
    /\ history = EmptyDict

\* C19: a get or set through one service's cache leaves the other service's
\* cache as it was, whatever is fetched; and a get of a full date through a
\* service is answered from that service's own cache or, when the date is
\* not there, by one fetch for that service's id, even when the other
\* service's cache holds the date.
C19_CachesIndependent ==
    [][ calls' = calls + 1
        => /\ via' = "mine" => other' = other
           /\ via' = "other" => history' = history
           /\ (last'.op = "get" /\ IsFullDate(last'.key))
              => LET own == IF via' = "mine" THEN history ELSE other.history
                     ownAfter == IF via' = "mine" THEN history' ELSE other.history'
                     k == DateString(last'.key)
                 IN  /\ pre' = own
                     /\ IF k \in DOMAIN own
                        THEN /\ last'.fetches = << >>
                             /\ last'.result = << own[k] >>
                        ELSE /\ Len(last'.fetches) = 1
                             /\ last'.fetches[1].endpoint.service
                                    = OwnService(via').service_id
                             /\ last'.result # << >>
                                => /\ last'.result = << ownAfter[k] >>
                                   /\ k \in DataDates(last'.fetches[1].data) ]_vars

\* C19 witness: 2024-07-05 was set in the first service's cache, and a get
\* of it through the second service fetched for service 8 and did not
\* return the first service's record.
C19_Witness ==
    /\ via = "other"
    /\ last.op = "get"
    /\ last.key = K_2024_07_05
    /\ K_2024_07_05 \in DOMAIN history
    /\ history[K_2024_07_05] \in SetValues
    /\ K_2024_07_05 \notin DOMAIN pre
    /\ Len(last.fetches) = 1
    /\ last.fetches[1].endpoint.service = 8
    /\ Len(last.result) = 1
    /\ last.result[1] \notin SetValues

\* Both threads have returned from _try_get_date.
BothDone == \A t \in {1, 2} : threads[t].pc = "done"

\* The n-th request of the threads succeeded with a well-formed response
\* that has an entry for the day.
FetchedTheDay(n) ==
    /\ fetchlog[n].req.error = "none"
    /\ WellFormed(fetchlog[n].req.data)
    /\ K_2024_07_05 \in DataDates(fetchlog[n].req.data)

\* C20 as stated, its serial half: when the two gets of the uncached key do
\* not overlap and both return, only one fetch is issued.
C20_SerialGetsOneFetch ==
    (BothDone /\ ~overlapped /\ \A t \in {1, 2} : threads[t].err = "none")
    => Len(fetchlog) = 1

\* C20, amended: each thread fetches at most once, and only for the month
\* of the key; when the two gets do not overlap and the first one's fetch
\* succeeds with a response that holds the day, only that one fetch is
\* issued and both gets return the record; so a day the provider has is
\* fetched twice only when both threads passed the cache check before
\* either wrote the cache.
C20_RaceOnlyWhenOverlapped ==
    /\ Len(fetchlog) <= 2
    /\ \A n \in 1..Len(fetchlog) :
          fetchlog[n].req.endpoint = Endpoint(service_id, 2024, 6)
    /\ \A n, m \in 1..Len(fetchlog) : n # m => fetchlog[n].thread # fetchlog[m].thread
    /\ (BothDone /\ ~overlapped /\ Len(fetchlog) >= 1 /\ FetchedTheDay(1))
       => /\ Len(fetchlog) = 1
          /\ \A t \in {1, 2} : /\ threads[t].err = "none"
                                /\ threads[t].ret = << history[K_2024_07_05] >>

\* C20 witness: both threads passed the check of the empty cache before
\* either wrote, each sent the request for 2024/6, both responses held
\* the day, and both returned its record.
C20_Witness ==
    /\ BothDone
    /\ overlapped
    /\ Len(fetchlog) = 2
    /\ fetchlog[1].req.endpoint = fetchlog[2].req.endpoint
    /\ FetchedTheDay(1)
    /\ FetchedTheDay(2)
    /\ \A t \in {1, 2} : Len(threads[t].ret) = 1

\* C21: a newly built AussieBB holds the cache_refresh it was given, whatever
\* the value (0 and large ones too), and 120000 when none was given; it is
\* not authenticated, holds no cookies or tokens, and has no cached customer.
C21_ConstructorStoresRefresh ==
    [][ (last' # last /\ last'.op = "init")
        => /\ cache_refresh' = IF last'.value = << >> THEN 120000
                                ELSE last'.value[1]
           /\ authenticated' = FALSE
           /\ cookie_dict' = "None" /\ refresh_token' = "None"
           /\ token_expiry' = "None"
           /\ customer' = EmptyCache ]_vars

\* C21 witness: AussieBB(0) was built after customer had been read through
\* an earlier client, and holds 0.
C21_Witness ==
    /\ last = InitCall(<< 0 >>)
    /\ cache_refresh = 0
    /\ ~authenticated
    /\ customer = EmptyCache
    /\ calls > 0

\* The login attempts that fail at one of the three checks of login.
FailingLogins ==
    { a \in [status : {200, 401}, cookies : BOOLEAN, tokens : BOOLEAN] :
        a.status >= 400 \/ ~a.cookies \/ ~a.tokens }

\* C24: over any sequence of logins, authenticated is True only with the
\* cookies, the refresh token and the token expiry all set; it becomes True
\* only in a login whose response has a status below 400, cookies and both
\* refreshToken and expiresIn; and a login that fails at any of the three
\* checks leaves it as it was.
C24_SessionInvariant ==
    /\ [](authenticated => /\ cookie_dict # "None"
                           /\ refresh_token # "None"
                           /\ token_expiry # "None")
    /\ [][ (authenticated' /\ ~authenticated)
           => \E status \in {200, 401} : status < 400 /\ Login(status, TRUE, TRUE) ]_vars
    /\ [][ \A a \in FailingLogins :
              Login(a.status, a.cookies, a.tokens) => authenticated' = authenticated ]_vars

\* C24 witness: a login has succeeded on a client built with cache_refresh 5.
C24_Witness ==
    /\ authenticated
    /\ cookie_dict = "cookies" /\ refresh_token = "token" /\ token_expiry = "expiry"
    /\ last = InitCall(<< 5 >>)

\* The last call read usage_history of a service that held a cache already.
HistoryReadAgain ==
    /\ access.what = "history"
    /\ access.had.value # << >>

\* The dates of the responses the last call ingested.
FetchedDates ==
    UNION { DataDates(last.fetches[n].data) :
              n \in { m \in 1..Len(last.fetches) : last.fetches[m].error = "none" } }

\* The record under k is the one the last call wrote: set stored it, or get
\* ingested a response holding its date.
WrittenByLast(k, days) ==
    \/ last.op = "set" /\ last.err = "none" /\ days[k] = last.value[1]
    \/ last.op = "get" /\ k \in FetchedDates

\* C22: reading service.usage_history more than cache_refresh after the
\* cache it holds was created puts a new, empty cache with the time of the
\* read in its place: nothing cached before (fetched or set) is left except
\* what this very call writes, and a get of a day cached before fetches
\* again.  Within cache_refresh the same cache stays, with its time and its
\* entries, and a get of a cached day fetches nothing.
C22_HistoryCacheReplacedWhenStale ==
    HistoryReadAgain
    => LET had == access.had
           cur == heap[via].usage_history
           old == had.value[1].history
           new == cur.value[1].history
       IN  IF access.at - had.updated > cache_refresh
           THEN /\ cur.value[1].serial # had.value[1].serial
                /\ cur.updated = access.at
                /\ \A k \in DOMAIN new : WrittenByLast(k, new)
                /\ (last.op = "get" /\ last.key \in DOMAIN old) => last.fetches # << >>
           ELSE /\ cur.value[1].serial = had.value[1].serial
                /\ cur.updated = had.updated
                /\ \A k \in DOMAIN old :
                      k \in DOMAIN new /\ (new[k] = old[k] \/ WrittenByLast(k, new))
                /\ (last.op = "get" /\ last.key \in DOMAIN old)
                   => last.fetches = << >> /\ last.result = << old[last.key] >>

\* C22 witness: "2024-07-05" was cached, usage_history was read again more
\* than cache_refresh after the cache was created, the get of the day
\* fetched, and the day is gone because the response does not hold it.
C22_Witness ==
    /\ HistoryReadAgain
    /\ access.at - access.had.updated > cache_refresh
    /\ K_2024_07_05 \in DOMAIN access.had.value[1].history
    /\ last.op = "get" /\ last.key = K_2024_07_05
    /\ last.fetches # << >>
    /\ K_2024_07_05 \notin DOMAIN heap[via].usage_history.value[1].history

\* Within cache_refresh the cached day came back from the same cache.
C22_WitnessFresh ==
    /\ HistoryReadAgain
    /\ access.at - access.had.updated <= cache_refresh
    /\ access.at > access.had.updated
    /\ last.op = "get" /\ last.key = K_2024_07_05
    /\ last.fetches = << >> /\ last.result # << >>

\* The last read of abb.services fetched the customer and built it.
ServicesRefetched ==
    /\ access.what = "services"
    /\ access.fetches # << >>
    /\ access.err = "none"

\* C23: whenever a read of customer or services fetches the customer (first
\* read or stale read), the services list holds service objects that did
\* not exist before, with usage_overview and usage_history None and their
\* times 0; the services built before keep what they had cached, and none
\* of them is in the new list.
C23_RefetchBuildsNewServices ==
    [][ (calls' = calls + 1 /\ ServicesRefetched')
        => LET list == customer'.value[1].services
           IN  /\ access'.ret = << list >>
               /\ \A n \in DOMAIN list :
                     /\ list[n] \in DOMAIN heap' \ DOMAIN heap
                     /\ heap'[list[n]].usage_overview = [value |-> << >>, updated |-> 0]
                     /\ heap'[list[n]].usage_history = [value |-> << >>, updated |-> 0]
               /\ \A j \in DOMAIN heap : heap'[j] = heap[j] ]_vars

\* C23 witness: a stale read of services fetched the customer again while a
\* service of the list before held cached days: the service of the new list
\* holds none.
C23_Witness ==
    /\ ServicesRefetched
    /\ access.had.value # << >>
    /\ \E j \in DOMAIN heap :
          /\ j \in { access.had.value[1].services[n] :
                        n \in DOMAIN access.had.value[1].services }
          /\ K_2024_07_05 \in DOMAIN HeldDays(heap[j])
    /\ \A n \in DOMAIN customer.value[1].services :
          HeldDays(heap[customer.value[1].services[n]]) = EmptyDict

====
